---- MODULE Spec2Model ----
(***************************************************************************)
(* Inventory backend of backend/server.py: the users, categories and       *)
(* products collections, the bearer-token guard and the request handlers.  *)
(* Every handler is a coroutine; it is cut at its awaits on the store, so   *)
(* one step is one store operation together with the local code that       *)
(* follows it up to the next await.                                         *)
(*                                                                         *)
(* Representation: an Optional[T] value is a sequence of length at most 1  *)
(* (<<>> is None); unit_price is held in cents; a uuid4 is a fresh number; *)
(* a timestamp is the clock `now`, counted in hours.                       *)
(***************************************************************************)
EXTENDS Integers, Sequences, FiniteSets, TLC

\* ------------------------------------------------------------- bounds
NProcs == 2
MaxOps == 4
MaxTime == 24
TickHours == 12
BigStore == 1001
MaxTargets == 2

\* ---------------------------------------------------- program constants
JWT_EXPIRATION_HOURS == 24
FetchCap == 1000
DefaultReorderLevel == 10

None == << >>
Some(v) == << v >>

Procs == 1 .. NProcs

VARIABLES users, categories, products, now, nextId, issued, jwtHasJWTError,
          conc, ops, seeded, procs

vars == << users, categories, products, now, nextId, issued, jwtHasJWTError,
           conc, ops, seeded, procs >>

\* users, categories, products: the three collections, in natural order.
\* now: datetime.now(timezone.utc), in hours.  nextId: the next uuid4.
\* jwtHasJWTError: whether the imported jwt module has an attribute JWTError
\*   (PyJWT, whose encode/decode/ExpiredSignatureError the code uses, has not).
\* procs: the coroutines; of each, where it stands (pc), its request (op, tok,
\*   arg), its locals (loc), the guard's verdict and time (guard, at), the
\*   store as the request found it (pre) and the response (status, detail, body).
\* conc: how many requests may be in progress at once.
\* issued: the tokens handed out, each with its user and time of issue.
\* ops, seeded: the requests received and the seedings completed so far.

\* ------------------------------------------------------------ helpers
Range(s) == { s[i] : i \in 1 .. Len(s) }

\* A store filter: {"f": v, ...} with, for update_product's re-check, a
\* further {"g": {"$ne": w}}. eq and ne are records (<< >> when empty).
Matches(doc, q) ==
  /\ \A f \in DOMAIN q.eq : doc[f] = q.eq[f]
  /\ \A f \in DOMAIN q.ne : doc[f] # q.ne[f]

Hits(coll, q) == { i \in 1 .. Len(coll) : Matches(coll[i], q) }

FirstHit(coll, q) ==
  CHOOSE i \in Hits(coll, q) : \A j \in Hits(coll, q) : i <= j

\* find_one(filter): the first document, in natural order, that matches.
FindOne(coll, q) ==
  IF Hits(coll, q) = {} THEN None ELSE Some(coll[FirstHit(coll, q)])

\* find(filter).to_list(n): at most the first n matching documents.
FindToList(coll, q, n) ==
  LET Hit(d) == Matches(d, q)
      hits == SelectSeq(coll, Hit) IN
  IF Len(hits) <= n THEN hits ELSE SubSeq(hits, 1, n)

\* count_documents(filter)
CountDocuments(coll, q) == Cardinality(Hits(coll, q))

\* update_one(filter, {"$set": set}): rewrites the first matching document.
UpdateOne(coll, q, set) ==
  IF Hits(coll, q) = {} THEN coll
  ELSE LET k == FirstHit(coll, q) IN
       [coll EXCEPT ![k] =
          [f \in DOMAIN coll[k] |-> IF f \in DOMAIN set THEN set[f] ELSE coll[k][f]]]

\* delete_one(filter): removes the first matching document.
DeleteOne(coll, q) ==
  IF Hits(coll, q) = {} THEN coll
  ELSE LET k == FirstHit(coll, q) IN
       SubSeq(coll, 1, k - 1) \o SubSeq(coll, k + 1, Len(coll))

\* ------------------------------------------------------ credentials
\* pwd_context.hash / verify: a one-way hash that verify matches against.
get_password_hash(password) == [alg |-> "bcrypt", of |-> password]

verify_password(plain_password, hashed_password) ==
  hashed_password.of = plain_password

\* --------------------------------------------------------- tokens
create_access_token(sub) ==
  [sub |-> Some(sub), exp |-> now + JWT_EXPIRATION_HOURS, sig |-> "ok"]

\* jwt.decode: the signature first, then the exp claim (expired when
\* exp <= now).
jwt_decode(token) ==
  IF token.sig # "ok" THEN [err |-> "InvalidSignatureError"]
  ELSE IF token.exp <= now THEN [err |-> "ExpiredSignatureError"]
  ELSE [err |-> "", sub |-> token.sub]

\* What `except jwt.JWTError:` does with an exception that the first clause
\* did not take: the clause's expression is evaluated, and a jwt module that
\* has no attribute JWTError raises AttributeError there (a 500 response).
ExceptJWTError(isJWTError, status, detail) ==
  IF ~jwtHasJWTError THEN [status |-> 500, detail |-> "AttributeError", user |-> None]
  ELSE IF isJWTError
    THEN [status |-> 401, detail |-> "Could not validate credentials", user |-> None]
  ELSE [status |-> status, detail |-> detail, user |-> None]

\* get_current_user: the guard's verdict on a bearer token, now.
get_current_user(token) ==
  LET payload == jwt_decode(token) IN
  IF payload.err = "ExpiredSignatureError"
    THEN [status |-> 401, detail |-> "Token has expired", user |-> None]
  ELSE IF payload.err # ""
    THEN ExceptJWTError(TRUE, 0, "")
  ELSE IF payload.sub = None
    THEN ExceptJWTError(FALSE, 401, "Invalid authentication credentials")
  ELSE LET user == FindOne(users, [eq |-> [id |-> payload.sub[1]], ne |-> << >>]) IN
       IF user = None
         THEN [status |-> 401, detail |-> "User not found", user |-> None]
       ELSE [status |-> 200, detail |-> "", user |-> Some(user[1].id)]

\* ------------------------------------------------------- documents
\* User(email, name) with its defaults, plus the password_hash the handler adds.
UserDoc(id, email, name, password) ==
  [id |-> id, email |-> email, name |-> name, created_at |-> now,
   password_hash |-> get_password_hash(password)]

\* Category(**category_data.model_dump())
CategoryDoc(id, data) ==
  [id |-> id, name |-> data.name, description |-> data.description,
   created_at |-> now]

\* Product(**product_data.model_dump())
ProductDoc(id, data) ==
  [id |-> id, name |-> data.name, sku |-> data.sku, category |-> data.category,
   quantity |-> data.quantity, unit_price |-> data.unit_price,
   reorder_level |-> data.reorder_level, description |-> data.description,
   created_at |-> now, updated_at |-> now]

PatchFields ==
  {"name", "sku", "category", "quantity", "unit_price", "reorder_level", "description"}

\* The fields kept `if v` would keep: 0 and "" dropped with None.
PatchPresentTruthy(patch) ==
  { k \in PatchFields :
      /\ patch[k] # None
      /\ IF k \in {"quantity", "unit_price", "reorder_level"}
           THEN patch[k][1] # 0 ELSE patch[k][1] # "" }

\* {k: v for k, v in product_data.model_dump().items() if v is not None},
\* as the values the store holds (description is stored as an Optional).
PatchPresent(patch) == { k \in PatchFields : patch[k] # None }

PatchData(patch) ==
  [k \in PatchPresent(patch) |->
     IF k = "description" THEN patch[k] ELSE patch[k][1]]

\* update_data: the present fields and the refreshed updated_at.
UpdateData(patch) ==
  [k \in PatchPresent(patch) \cup {"updated_at"} |->
     IF k = "updated_at" THEN now ELSE PatchData(patch)[k]]

LowStockBelow(p) == p.quantity < p.reorder_level

\* p["quantity"] <= p["reorder_level"]
LowStock(p) == p.quantity <= p.reorder_level

\* ------------------------------------------------- the seed catalog
SeedCategories ==
  << [name |-> "Electronics", description |-> Some("Electronic devices and accessories")],
     [name |-> "Furniture", description |-> Some("Office and home furniture")],
     [name |-> "Stationery", description |-> Some("Office supplies and stationery")],
     [name |-> "Clothing", description |-> Some("Apparel and accessories")],
     [name |-> "Food & Beverages", description |-> Some("Food items and drinks")] >>

SeedItem(name, sku, category, quantity, cents, reorder_level, description) ==
  [name |-> name, sku |-> sku, category |-> category, quantity |-> quantity,
   unit_price |-> cents, reorder_level |-> reorder_level,
   description |-> Some(description)]

SeedProducts ==
  << SeedItem("Laptop Dell XPS 15", "ELEC-001", "Electronics", 25, 129999, 10, "High-performance laptop"),
     SeedItem("Wireless Mouse", "ELEC-002", "Electronics", 150, 2999, 50, "Ergonomic wireless mouse"),
     SeedItem("Office Chair Premium", "FURN-001", "Furniture", 8, 29999, 15, "Ergonomic office chair"),
     SeedItem("Standing Desk", "FURN-002", "Furniture", 12, 49999, 10, "Adjustable standing desk"),
     SeedItem("Notebook A4", "STAT-001", "Stationery", 500, 399, 100, "Ruled notebook"),
     SeedItem("Ballpoint Pens (Pack of 10)", "STAT-002", "Stationery", 5, 599, 50, "Blue ink pens"),
     SeedItem("Business Shirt", "CLTH-001", "Clothing", 45, 4999, 20, "Formal business shirt"),
     SeedItem("Coffee Beans (1kg)", "FOOD-001", "Food & Beverages", 3, 2499, 20, "Premium arabica beans"),
     SeedItem("Bottled Water (24 pack)", "FOOD-002", "Food & Beverages", 80, 899, 30, "Natural spring water"),
     SeedItem("USB-C Cable", "ELEC-003", "Electronics", 200, 1299, 80, "2m USB-C charging cable") >>

\* The lists seed_data builds: fresh ids from `first` on, stamped now.
SeedCategoryDocs(first) ==
  [i \in 1 .. Len(SeedCategories) |-> CategoryDoc(first + i - 1, SeedCategories[i])]

SeedProductDocs(first) ==
  [i \in 1 .. Len(SeedProducts) |-> ProductDoc(first + i - 1, SeedProducts[i])]

\* ------------------------------------------------- request inputs
Emails == {"a@x.io", "b@x.io"}

RegisterInputs == [email : Emails, password : {"pw"}, name : {"Ann"}]

LoginInputs == [email : Emails, password : {"pw", "bad"}]

CategoryInputs == [name : {"Electronics", "Tools"}, description : {None}]

ProductInputs ==
  { [name |-> "Widget", sku |-> "ELEC-001", category |-> "Electronics",
     quantity |-> 10, unit_price |-> 500,
     reorder_level |-> DefaultReorderLevel, description |-> None],
    [name |-> "Gadget", sku |-> "SKU-1", category |-> "Tools",
     quantity |-> 11, unit_price |-> 250,
     reorder_level |-> DefaultReorderLevel, description |-> Some("spare")] }

NoPatch ==
  [name |-> None, sku |-> None, category |-> None, quantity |-> None,
   unit_price |-> None, reorder_level |-> None, description |-> None]

PatchInputs ==
  { NoPatch,
    [NoPatch EXCEPT !.sku = Some("ELEC-001"), !.quantity = Some(0)],
    [NoPatch EXCEPT !.sku = Some("SKU-1")],
    [NoPatch EXCEPT !.name = Some("Renamed"), !.category = Some("Furniture"),
                    !.unit_price = Some(0), !.reorder_level = Some(11),
                    !.description = Some("new")] }

ListInputs ==
  [category : {None, Some(""), Some("Electronics")},
   low_stock : {None, Some(TRUE), Some(FALSE)}]

\* A bearer token that was not signed with JWT_SECRET.
BadToken == [sub |-> None, exp |-> 0, sig |-> "bad"]
NoToken == [sub |-> None, exp |-> 0, sig |-> "none"]

\* The tokens handed out so far, and with them a bad one.
IssuedTokens == { r.token : r \in issued }
Offered == IssuedTokens \cup { BadToken }

\* Product ids a client names: those of the first MaxTargets stored products,
\* and one that is not stored.
OfferedIds ==
  { products[i].id : i \in { j \in 1 .. Len(products) : j <= MaxTargets } } \cup { 0 }

Req(op, tok, arg) == [op |-> op, tok |-> tok, arg |-> arg]

\* Registration, login and the guarded /auth/me, with every token on offer.
AuthRequests ==
  { Req("register", NoToken, a) : a \in RegisterInputs }
    \cup { Req("login", NoToken, a) : a \in LoginInputs }
    \cup { Req("get_me", t, << >>) : t \in Offered }

\* The inventory routes, called by a registered client.
WriteRequests ==
  { Req("create_product", t, a) : t \in IssuedTokens, a \in ProductInputs }
    \cup { Req("update_product", t, [product_id |-> i, patch |-> d]) :
             t \in IssuedTokens, i \in OfferedIds, d \in PatchInputs }
    \cup { Req("delete_product", t, [product_id |-> i]) :
             t \in IssuedTokens, i \in OfferedIds }

Requests ==
  { Req("register", NoToken, a) : a \in { r \in RegisterInputs : r.email = "a@x.io" } }
    \cup { Req("seed_data", NoToken, << >>) }
    \cup { Req("create_category", t, a) : t \in IssuedTokens, a \in CategoryInputs }
    \cup WriteRequests

ListRequests ==
  { Req("get_products", t, a) : t \in IssuedTokens, a \in ListInputs }

\* Registration and the product writes that are let overlap.
RacePatchInputs == { d \in PatchInputs : d.sku = Some("SKU-1") }

RaceRequests ==
  { r \in Requests : r.op \in {"register", "create_product", "delete_product"} }
    \cup { r \in Requests : r.op = "update_product" /\ r.arg.patch \in RacePatchInputs }

\* --------------------------------------------------------- requests
IdleProc ==
  [pc |-> "idle", op |-> "", tok |-> NoToken, arg |-> << >>, guard |-> << >>,
   loc |-> << >>, pre |-> << >>, at |-> 0, status |-> 0, detail |-> "",
   body |-> << >>]

InFlight(p) == procs[p].pc \notin {"idle", "done", "aborted"}

\* Where each route's coroutine starts: Depends(get_current_user) first on a
\* protected route.
FirstPc(op) ==
  CASE op = "register" -> "register_find_one"
    [] op = "login" -> "login_find_one"
    [] op = "seed_data" -> "seed_count_documents"
    [] OTHER -> "auth"

\* After the guard has passed, the handler's first store operation.
BodyPc(op) ==
  CASE op = "create_category" -> "create_category_find_one"
    [] op = "get_products" -> "get_products_find"
    [] op = "create_product" -> "create_product_find_one"
    [] op = "update_product" -> "update_product_find_one"
    [] op = "delete_product" -> "delete_product_delete_one"
    [] OTHER -> "done"

Snapshot == [users |-> users, categories |-> categories, products |-> products]

\* A response: the handler returned or raised.
Respond(p, status, detail, body) ==
  [procs EXCEPT ![p].pc = "done", ![p].status = status, ![p].detail = detail,
                ![p].body = body]

Accept(p, req) ==
  /\ ops < MaxOps
  /\ ~InFlight(p)
  /\ \A q \in Procs : q < p => InFlight(q)
  /\ Cardinality({ q \in Procs : InFlight(q) }) < conc
  /\ ops' = ops + 1
  /\ procs' = [procs EXCEPT ![p] =
       [IdleProc EXCEPT !.pc = FirstPc(req.op), !.op = req.op, !.tok = req.tok,
                        !.arg = req.arg, !.pre = Snapshot, !.at = now]]
  /\ UNCHANGED << users, categories, products, now, nextId, issued,
                  jwtHasJWTError, conc, seeded >>

\* A request arrives.
Receive(p) == \E req \in Requests : Accept(p, req)

auth_receive(p) == \E req \in AuthRequests : Accept(p, req)

list_receive(p) == \E req \in ListRequests : Accept(p, req)

\* The clock moves on.
Tick ==
  /\ now + TickHours <= MaxTime
  /\ now' = now + TickHours
  /\ UNCHANGED << users, categories, products, nextId, issued, jwtHasJWTError,
                  conc, seeded, ops, procs >>

\* Depends(get_current_user); get_me returns the user it resolved.
Auth(p) ==
  /\ procs[p].pc = "auth"
  /\ LET g == get_current_user(procs[p].tok) IN
     procs' =
       IF g.status # 200
         THEN [Respond(p, g.status, g.detail, << >>) EXCEPT ![p].guard = g, ![p].at = now]
       ELSE IF procs[p].op = "get_me"
         THEN [Respond(p, 200, "", g.user) EXCEPT ![p].guard = g, ![p].at = now]
       ELSE [procs EXCEPT ![p].guard = g, ![p].at = now, ![p].pc = BodyPc(procs[p].op)]
  /\ UNCHANGED << users, categories, products, now, nextId, issued,
                  jwtHasJWTError, conc, seeded, ops >>

Eq(field, value) == [eq |-> [f \in {field} |-> value], ne |-> << >>]
All == [eq |-> << >>, ne |-> << >>]

\* --------------------------------------------------------- register
register_filter_by_name(user_data) == Eq("name", user_data.name)

\* {"email": user_data.email}
register_filter(user_data) == Eq("email", user_data.email)

register_find_one(p) ==
  /\ procs[p].pc = "register_find_one"
  /\ LET user_data == procs[p].arg
         existing_user == FindOne(users, register_filter(user_data)) IN
     IF existing_user # None
       THEN /\ procs' = Respond(p, 400, "Email already registered", << >>)
            /\ UNCHANGED nextId
       ELSE /\ procs' = [procs EXCEPT
                 ![p].pc = "register_insert_one",
                 ![p].loc = UserDoc(nextId, user_data.email, user_data.name,
                                    user_data.password)]
            /\ nextId' = nextId + 1
  /\ UNCHANGED << users, categories, products, now, issued, jwtHasJWTError,
                  conc, seeded, ops >>

register_insert_one(p) ==
  /\ procs[p].pc = "register_insert_one"
  /\ LET user_dict == procs[p].loc
         access_token == create_access_token(user_dict.id) IN
     /\ users' = Append(users, user_dict)
     /\ issued' = issued \cup
          { [token |-> access_token, user |-> user_dict.id, at |-> now] }
     /\ procs' = Respond(p, 200, "",
          [access_token |-> access_token, user |-> user_dict.id])
  /\ UNCHANGED << categories, products, now, nextId, jwtHasJWTError, conc, seeded, ops >>

\* ------------------------------------------------------------ login
login_find_one(p) ==
  /\ procs[p].pc = "login_find_one"
  /\ LET credentials == procs[p].arg
         user == FindOne(users, Eq("email", credentials.email)) IN
     IF user = None
          \/ ~verify_password(credentials.password, user[1].password_hash)
       THEN /\ procs' = Respond(p, 401, "Invalid email or password", << >>)
            /\ UNCHANGED issued
       ELSE LET access_token == create_access_token(user[1].id) IN
            /\ issued' = issued \cup
                 { [token |-> access_token, user |-> user[1].id, at |-> now] }
            /\ procs' = Respond(p, 200, "",
                 [access_token |-> access_token, user |-> user[1].id])
  /\ UNCHANGED << users, categories, products, now, nextId, jwtHasJWTError,
                  conc, seeded, ops >>

\* -------------------------------------------------- create_category
create_category_find_one(p) ==
  /\ procs[p].pc = "create_category_find_one"
  /\ LET category_data == procs[p].arg
         existing == FindOne(categories, Eq("name", category_data.name)) IN
     IF existing # None
       THEN /\ procs' = Respond(p, 400, "Category already exists", << >>)
            /\ UNCHANGED nextId
       ELSE /\ procs' = [procs EXCEPT
                 ![p].pc = "create_category_insert_one",
                 ![p].loc = CategoryDoc(nextId, category_data)]
            /\ nextId' = nextId + 1
  /\ UNCHANGED << users, categories, products, now, issued, jwtHasJWTError,
                  conc, seeded, ops >>

create_category_insert_one(p) ==
  /\ procs[p].pc = "create_category_insert_one"
  /\ categories' = Append(categories, procs[p].loc)
  /\ procs' = Respond(p, 200, "", procs[p].loc)
  /\ UNCHANGED << users, products, now, nextId, issued, jwtHasJWTError, conc, seeded, ops >>

\* ----------------------------------------------------- get_products
\* Python truthiness of an Optional[str] / Optional[bool] query parameter.
TruthyStr(opt) == opt # None /\ opt[1] # ""
TruthyBool(opt) == opt # None /\ opt[1]

ListedProducts(coll, category, low_stock) ==
  LET query == IF TruthyStr(category) THEN Eq("category", category[1]) ELSE All
      fetched == FindToList(coll, query, FetchCap) IN
  IF TruthyBool(low_stock) THEN SelectSeq(fetched, LowStock) ELSE fetched

get_products_find(p) ==
  /\ procs[p].pc = "get_products_find"
  /\ procs' = Respond(p, 200, "",
       ListedProducts(products, procs[p].arg.category, procs[p].arg.low_stock))
  /\ UNCHANGED << users, categories, products, now, nextId, issued,
                  jwtHasJWTError, conc, seeded, ops >>

\* --------------------------------------------------- create_product
create_product_find_one(p) ==
  /\ procs[p].pc = "create_product_find_one"
  /\ LET product_data == procs[p].arg
         existing == FindOne(products, Eq("sku", product_data.sku)) IN
     IF existing # None
       THEN /\ procs' = Respond(p, 400, "SKU already exists", << >>)
            /\ UNCHANGED nextId
       ELSE /\ procs' = [procs EXCEPT
                 ![p].pc = "create_product_insert_one",
                 ![p].loc = ProductDoc(nextId, product_data)]
            /\ nextId' = nextId + 1
  /\ UNCHANGED << users, categories, products, now, issued, jwtHasJWTError,
                  conc, seeded, ops >>

\* What a unique index on sku would make of the insert.
InsertProductUnique(coll, product) ==
  IF \E i \in 1 .. Len(coll) : coll[i].sku = product.sku
    THEN coll ELSE Append(coll, product)

\* insert_one(product.model_dump()): the store takes the document as it is.
InsertProduct(coll, product) == Append(coll, product)

create_product_insert_one(p) ==
  /\ procs[p].pc = "create_product_insert_one"
  /\ products' = InsertProduct(products, procs[p].loc)
  /\ procs' = Respond(p, 200, "", procs[p].loc)
  /\ UNCHANGED << users, categories, now, nextId, issued, jwtHasJWTError, conc, seeded, ops >>

\* --------------------------------------------------- update_product
\* "sku" in update_data and update_data["sku"] != existing["sku"]
SkuChanges(update_data, existing) ==
  "sku" \in DOMAIN update_data /\ update_data["sku"] # existing.sku

update_product_find_one(p) ==
  /\ procs[p].pc = "update_product_find_one"
  /\ LET product_id == procs[p].arg.product_id
         existing == FindOne(products, Eq("id", product_id)) IN
     procs' =
       IF existing = None
         THEN Respond(p, 404, "Product not found", << >>)
       ELSE LET update_data == UpdateData(procs[p].arg.patch) IN
            [procs EXCEPT
               ![p].loc = update_data,
               ![p].pc = IF SkuChanges(update_data, existing[1])
                           THEN "update_product_find_one_sku"
                           ELSE "update_product_update_one"]
  /\ UNCHANGED << users, categories, products, now, nextId, issued,
                  jwtHasJWTError, conc, seeded, ops >>

update_product_find_one_sku(p) ==
  /\ procs[p].pc = "update_product_find_one_sku"
  /\ LET update_data == procs[p].loc
         sku_exists == FindOne(products,
           [eq |-> [sku |-> update_data["sku"]],
            ne |-> [id |-> procs[p].arg.product_id]]) IN
     procs' =
       IF sku_exists # None
         THEN Respond(p, 400, "SKU already exists", << >>)
       ELSE [procs EXCEPT ![p].pc = "update_product_update_one"]
  /\ UNCHANGED << users, categories, products, now, nextId, issued,
                  jwtHasJWTError, conc, seeded, ops >>

update_product_update_one(p) ==
  /\ procs[p].pc = "update_product_update_one"
  /\ products' = UpdateOne(products, Eq("id", procs[p].arg.product_id), procs[p].loc)
  /\ procs' = [procs EXCEPT ![p].pc = "update_product_reread"]
  /\ UNCHANGED << users, categories, now, nextId, issued, jwtHasJWTError, conc, seeded, ops >>

\* updated_product = find_one(...); Product(**updated_product): with None for
\* the record, ** raises TypeError, which no handler catches (a 500 response).
update_product_reread(p) ==
  /\ procs[p].pc = "update_product_reread"
  /\ LET updated_product == FindOne(products, Eq("id", procs[p].arg.product_id)) IN
     procs' =
       IF updated_product = None
         THEN Respond(p, 500, "TypeError", << >>)
       ELSE Respond(p, 200, "", updated_product[1])
  /\ UNCHANGED << users, categories, products, now, nextId, issued,
                  jwtHasJWTError, conc, seeded, ops >>

\* --------------------------------------------------- delete_product
delete_product_delete_one(p) ==
  /\ procs[p].pc = "delete_product_delete_one"
  /\ LET q == Eq("id", procs[p].arg.product_id)
         deleted_count == IF Hits(products, q) = {} THEN 0 ELSE 1 IN
     /\ products' = DeleteOne(products, q)
     /\ procs' =
          IF deleted_count = 0
            THEN Respond(p, 404, "Product not found", << >>)
          ELSE Respond(p, 200, "Product deleted successfully", << >>)
  /\ UNCHANGED << users, categories, now, nextId, issued, jwtHasJWTError, conc, seeded, ops >>

\* -------------------------------------------------------- seed_data
AlreadySeededWhenFull(existing_categories) ==
  existing_categories > Len(SeedCategories)

\* existing_categories > 0
AlreadySeeded(existing_categories) == existing_categories > 0

seed_count_documents(p) ==
  /\ procs[p].pc = "seed_count_documents"
  /\ LET existing_categories == CountDocuments(categories, All) IN
     IF AlreadySeeded(existing_categories)
       THEN /\ procs' = Respond(p, 200, "Data already seeded", << >>)
            /\ UNCHANGED nextId
       ELSE /\ procs' = [procs EXCEPT ![p].pc = "seed_insert_many_categories",
                                      ![p].loc = SeedCategoryDocs(nextId)]
            /\ nextId' = nextId + Len(SeedCategories)
  /\ UNCHANGED << users, categories, products, now, issued, jwtHasJWTError,
                  conc, seeded, ops >>

\* insert_many is taken as one step: the whole list goes in, in order.
seed_insert_many_categories(p) ==
  /\ procs[p].pc = "seed_insert_many_categories"
  /\ categories' = categories \o procs[p].loc
  /\ procs' = [procs EXCEPT ![p].pc = "seed_insert_many_products",
                            ![p].loc = SeedProductDocs(nextId)]
  /\ nextId' = nextId + Len(SeedProducts)
  /\ UNCHANGED << users, products, now, issued, jwtHasJWTError, conc, seeded, ops >>

seed_insert_many_products(p) ==
  /\ procs[p].pc = "seed_insert_many_products"
  /\ products' = products \o procs[p].loc
  /\ procs' = Respond(p, 200, "Sample data seeded successfully", << >>)
  /\ seeded' = seeded + 1
  /\ UNCHANGED << users, categories, now, nextId, issued, jwtHasJWTError, conc, ops >>

\* ------------------------------------------------------------ faults
\* A request stops where it is: the client goes away, the store call raises,
\* the process is killed. Nothing is rolled back.
Abort(p) ==
  /\ InFlight(p)
  /\ procs' = [procs EXCEPT ![p].pc = "aborted"]
  /\ UNCHANGED << users, categories, products, now, nextId, issued,
                  jwtHasJWTError, conc, seeded, ops >>

\* ---------------------------------------------------- specifications
Empty ==
  /\ users = << >>
  /\ categories = << >>
  /\ products = << >>
  /\ now = 0
  /\ nextId = 1
  /\ issued = {}
  /\ ops = 0
  /\ seeded = 0
  /\ procs = [p \in Procs |-> IdleProc]

register_steps(p) == register_find_one(p) \/ register_insert_one(p)

product_steps(p) ==
  \/ Auth(p)
  \/ create_product_find_one(p)
  \/ create_product_insert_one(p)
  \/ update_product_find_one(p)
  \/ update_product_find_one_sku(p)
  \/ update_product_update_one(p)
  \/ update_product_reread(p)
  \/ delete_product_delete_one(p)

Step(p) ==
  \/ register_steps(p)
  \/ product_steps(p)
  \/ create_category_find_one(p)
  \/ create_category_insert_one(p)
  \/ seed_count_documents(p)
  \/ seed_insert_many_categories(p)
  \/ seed_insert_many_products(p)

\* The inventory, from an empty store; requests one at a time, each run to
\* completion.
Init == Empty /\ conc = 1 /\ jwtHasJWTError = FALSE

Next == Tick \/ \E p \in Procs : Receive(p) \/ Step(p)

Spec == Init /\ [][Next]_vars

\* The same, and a request may stop at any await.
NextFault == Next \/ \E p \in Procs : Abort(p)

SpecFault == Init /\ [][NextFault]_vars

\* Registration, login and the guard, under either jwt module.
InitAuth == Empty /\ conc = 1 /\ jwtHasJWTError \in BOOLEAN

NextAuth ==
  Tick \/ \E p \in Procs : auth_receive(p) \/ register_steps(p)
                             \/ login_find_one(p) \/ Auth(p)

SpecAuth == InitAuth /\ [][NextAuth]_vars

\* Overlapping requests: up to NProcs coroutines interleave at their awaits.
race_receive(p) == \E req \in RaceRequests : Accept(p, req)

InitConc == Empty /\ conc = NProcs /\ jwtHasJWTError = FALSE

NextConc ==
  \E p \in Procs : race_receive(p) \/ register_steps(p) \/ product_steps(p)

SpecConc == InitConc /\ [][NextConc]_vars

\* Listing, over stores that create_product calls by one registered client
\* have filled: every store of up to two products, and one of BigStore.
ListCategories == {"Electronics", ""}
ListQuantities == {DefaultReorderLevel - 1, DefaultReorderLevel, DefaultReorderLevel + 1}

ListItem(i, category, quantity) ==
  [name |-> "Item", sku |-> << "SKU", i >>, category |-> category,
   quantity |-> quantity, unit_price |-> 100,
   reorder_level |-> DefaultReorderLevel, description |-> None]

SmallStores ==
  { << >> }
    \cup { << ProductDoc(2, ListItem(2, c, q)) >> :
             c \in ListCategories, q \in ListQuantities }
    \cup { << ProductDoc(2, ListItem(2, c, q)), ProductDoc(3, ListItem(3, d, r)) >> :
             c \in ListCategories, q \in ListQuantities,
             d \in ListCategories, r \in ListQuantities }

LargeStore ==
  [i \in 1 .. BigStore |->
     ProductDoc(i + 1,
       ListItem(i + 1, IF i % 2 = 0 THEN "Electronics" ELSE "",
                DefaultReorderLevel - 1 + ((i + 1) % 3)))]

InitList ==
  /\ now = 0
  /\ users = << UserDoc(1, "a@x.io", "Ann", "pw") >>
  /\ issued = { [token |-> create_access_token(1), user |-> 1, at |-> 0] }
  /\ categories = << >>
  /\ products \in SmallStores \cup { LargeStore }
  /\ nextId = Len(products) + 2
  /\ ops = 0
  /\ seeded = 0
  /\ procs = [p \in Procs |-> IdleProc]
  /\ conc = 1
  /\ jwtHasJWTError = FALSE

NextList == \E p \in Procs : list_receive(p) \/ Auth(p) \/ get_products_find(p)

SpecList == InitList /\ [][NextList]_vars

\* ------------------------------------------------------------ claims
Done(p) == procs[p].pc = "done"
Passed(p) == procs[p].guard # << >> /\ procs[p].guard.status = 200
Quiet == \A p \in Procs : ~InFlight(p)

DistinctOn(coll, field) ==
  \A i, j \in 1 .. Len(coll) : i # j => coll[i][field] # coll[j][field]

\* C1: whenever every call made so far has run to completion, no two stored
\* products have the same SKU.
C1_SkuUnique == Quiet => DistinctOn(products, "sku")

EmailHeld(coll, email) == \E i \in 1 .. Len(coll) : coll[i].email = email

\* C2: a completed register call whose email a stored user held answers 400
\* and leaves users as they were; one whose email nobody held appends exactly
\* one user with that email and returns a token whose subject is that user's
\* id; and no two stored users share an email.
C2_Register ==
  /\ DistinctOn(users, "email")
  /\ \A p \in Procs :
       Done(p) /\ procs[p].op = "register" =>
         LET pre == procs[p].pre
             email == procs[p].arg.email IN
         IF EmailHeld(pre.users, email)
           THEN procs[p].status = 400 /\ users = pre.users
           ELSE /\ procs[p].status = 200
                /\ Len(users) = Len(pre.users) + 1
                /\ SubSeq(users, 1, Len(pre.users)) = pre.users
                /\ users[Len(users)].email = email
                /\ procs[p].body.access_token.sig = "ok"
                /\ procs[p].body.access_token.sub = Some(users[Len(users)].id)
                /\ \A i \in 1 .. Len(pre.users) : pre.users[i].id # users[Len(users)].id

\* C2's case: a second registration of a held email was refused, and a
\* registration of a new email went through beside it.
C2_Witness ==
  /\ Len(users) = 2
  /\ \E p \in Procs : Done(p) /\ procs[p].op = "register" /\ procs[p].status = 400

SkuHeld(coll, sku) == \E i \in 1 .. Len(coll) : coll[i].sku = sku

\* The stored value a patch gives field f.
PatchValue(patch, f) == IF f = "description" THEN patch[f] ELSE patch[f][1]

\* new is old with exactly the patch's non-null fields replaced.
PatchApplied(old, new, patch) ==
  \A f \in PatchFields :
    new[f] = IF patch[f] # None THEN PatchValue(patch, f) ELSE old[f]

\* C3: a completed create_product whose SKU a stored product held answers 400
\* and stores nothing; a completed update_product of A whose patch SKU is the
\* SKU of another stored product B answers 400 and leaves the products as they
\* were; one whose patch SKU is A's own SKU answers 200 with the rest of the
\* patch applied.
C3_SkuConflicts ==
  \A p \in Procs :
    Done(p) /\ Passed(p) =>
      LET pre == procs[p].pre
          arg == procs[p].arg IN
      /\ procs[p].op = "create_product" /\ SkuHeld(pre.products, arg.sku) =>
           procs[p].status = 400 /\ products = pre.products
      /\ procs[p].op = "update_product" =>
           \A i \in 1 .. Len(pre.products) :
             pre.products[i].id = arg.product_id /\ arg.patch.sku # None =>
               /\ (\E j \in 1 .. Len(pre.products) :
                      /\ pre.products[j].id # arg.product_id
                      /\ pre.products[j].sku = arg.patch.sku[1]) =>
                    procs[p].status = 400 /\ products = pre.products
               /\ arg.patch.sku[1] = pre.products[i].sku =>
                    /\ procs[p].status = 200
                    /\ PatchApplied(pre.products[i], products[i], arg.patch)

\* C4: a completed update_product that answered 200 left, of the product it
\* names, every patch field at the patch's value when the patch gives one and at
\* its old value otherwise, id and created_at as they were, and updated_at at
\* the time of the call; every other product, every category and every user
\* is as before.
C4_UpdateFrame ==
  \A p \in Procs :
    Done(p) /\ procs[p].op = "update_product" /\ procs[p].status = 200 =>
      LET pre == procs[p].pre
          arg == procs[p].arg IN
      /\ users = pre.users
      /\ categories = pre.categories
      /\ Len(products) = Len(pre.products)
      /\ \E i \in 1 .. Len(products) : pre.products[i].id = arg.product_id
      /\ \A i \in 1 .. Len(products) :
           IF pre.products[i].id # arg.product_id
             THEN products[i] = pre.products[i]
             ELSE /\ PatchApplied(pre.products[i], products[i], arg.patch)
                  /\ products[i].id = pre.products[i].id
                  /\ products[i].created_at = pre.products[i].created_at
                  /\ products[i].updated_at >= procs[p].at
                  /\ products[i].updated_at <= now
                  /\ procs[p].body = products[i]

\* C4's case: a patch with some fields set (one of them to 0) and the rest
\* null went through on a product made at an earlier time.
C4_Witness ==
  \E p \in Procs :
    /\ Done(p) /\ procs[p].op = "update_product" /\ procs[p].status = 200
    /\ procs[p].arg.patch.quantity = Some(0)
    /\ procs[p].arg.patch.name = None
    /\ procs[p].body.updated_at > procs[p].body.created_at

\* The documents of coll, less the id and the timestamps seed_data gives them.
CatalogOf(coll) ==
  [i \in 1 .. Len(coll) |->
     [f \in DOMAIN coll[i] \ {"id", "created_at", "updated_at"} |-> coll[i][f]]]

\* C5: a completed seed_data call on a store without categories added exactly
\* the catalog of 5 categories and 10 products; one on a store with a category
\* answered "Data already seeded" and changed nothing; no second seeding ever
\* succeeds, and the categories of a seeded store never go below the catalog's.
C5_SeedOnce ==
  /\ seeded <= 1
  /\ seeded = 1 => Len(categories) >= Len(SeedCategories)
  /\ \A p \in Procs :
       Done(p) /\ procs[p].op = "seed_data" =>
         LET pre == procs[p].pre IN
         IF pre.categories = << >>
           THEN /\ procs[p].detail = "Sample data seeded successfully"
                /\ users = pre.users
                /\ Len(categories) = 5
                /\ CatalogOf(categories) = SeedCategories
                /\ Len(products) = Len(pre.products) + 10
                /\ SubSeq(products, 1, Len(pre.products)) = pre.products
                /\ CatalogOf(SubSeq(products, Len(pre.products) + 1, Len(products)))
                     = SeedProducts
                /\ DistinctOn(categories, "id") /\ DistinctOn(products, "id")
           ELSE /\ procs[p].detail = "Data already seeded"
                /\ users = pre.users
                /\ categories = pre.categories
                /\ products = pre.products

\* C5's case: after a seeding, and other calls, a further seed_data call
\* answered "Data already seeded".
C5_Witness ==
  /\ seeded = 1
  /\ Len(products) # Len(SeedProducts)
  /\ \E p \in Procs :
       Done(p) /\ procs[p].op = "seed_data" /\ procs[p].detail = "Data already seeded"

Checked(p) == procs[p].guard # << >>
Rejected(p) == Checked(p) /\ procs[p].guard.status # 200
UserStored(id) == \E i \in 1 .. Len(users) : users[i].id = id

\* The token was handed out for user id less than 24 hours before time t.
FreshFor(token, id, t) ==
  \E r \in issued :
    r.token = token /\ r.user = id /\ t - r.at < JWT_EXPIRATION_HOURS

\* C6: the guard resolves a request to user U exactly when its token was
\* issued for U less than 24 hours before and U is stored; it answers 401
\* "expired" to an issued token of 24 hours or more, 401 "invalid" to a token
\* with a bad signature or no subject, 401 to a subject that is not stored;
\* and a rejected request leaves every collection as it was.
C6_Guard ==
  \A p \in Procs :
    Checked(p) =>
      LET g == procs[p].guard
          token == procs[p].tok
          t == procs[p].at IN
      /\ \A id \in 1 .. nextId :
           (g.status = 200 /\ g.user = Some(id))
             <=> (FreshFor(token, id, t) /\ UserStored(id))
      /\ g.status \in {200, 401}
      /\ (token \in IssuedTokens /\ ~\E id \in 1 .. nextId : FreshFor(token, id, t))
           => g.status = 401 /\ g.detail = "Token has expired"
      /\ (token.sig # "ok" \/ token.sub = None)
           => /\ g.status = 401
              /\ g.detail \in {"Could not validate credentials",
                               "Invalid authentication credentials"}
      /\ (token.sig = "ok" /\ token.sub # None /\ ~UserStored(token.sub[1]))
           => g.status = 401
      /\ Rejected(p) /\ Done(p)
           => /\ users = procs[p].pre.users
              /\ categories = procs[p].pre.categories
              /\ products = procs[p].pre.products

\* The stored products a listing asks for, in store order: those of the
\* category when one is given (a null or empty category is none given), and
\* of those, with low_stock true, the ones with quantity <= reorder_level.
Wanted(coll, category, low_stock) ==
  LET InCategory(d) ==
        category = None \/ category[1] = "" \/ d.category = category[1]
      Asked(d) ==
        InCategory(d) /\ (low_stock = Some(TRUE) => d.quantity <= d.reorder_level)
  IN SelectSeq(coll, Asked)

CategoryMatches(coll, category) == Wanted(coll, category, None)

\* C7 as stated: a completed get_products returns exactly the wanted products.
C7_ListExact ==
  \A p \in Procs :
    Done(p) /\ procs[p].op = "get_products" /\ procs[p].status = 200 =>
      procs[p].body = Wanted(products, procs[p].arg.category, procs[p].arg.low_stock)

\* C7, amended: a completed get_products returns only wanted products, in
\* store order, never one with quantity > reorder_level under low_stock=true;
\* and when no more than 1000 stored products match the category filter it
\* returns exactly the wanted products.
C7_ListCapped ==
  \A p \in Procs :
    Done(p) /\ procs[p].op = "get_products" /\ procs[p].status = 200 =>
      LET arg == procs[p].arg
          wanted == Wanted(products, arg.category, arg.low_stock) IN
      /\ Len(procs[p].body) <= Len(wanted)
      /\ procs[p].body = SubSeq(wanted, 1, Len(procs[p].body))
      /\ Len(CategoryMatches(products, arg.category)) <= FetchCap
           => procs[p].body = wanted

\* C7's case: a low_stock=true listing returned a product at the boundary
\* quantity = reorder_level and left out one above it.
C7_Witness ==
  \E p \in Procs :
    /\ Done(p) /\ procs[p].op = "get_products" /\ procs[p].status = 200
    /\ procs[p].arg.low_stock = Some(TRUE)
    /\ Len(procs[p].body) = 1
    /\ procs[p].body[1].quantity = procs[p].body[1].reorder_level
    /\ Len(products) = 2

\* The ids of the documents that differ between two states of a collection.
ChangedIds(before, after) ==
  { d.id : d \in (Range(before) \ Range(after)) \cup (Range(after) \ Range(before)) }

DocsChanged(pre) ==
  Cardinality(ChangedIds(pre.users, users))
    + Cardinality(ChangedIds(pre.categories, categories))
    + Cardinality(ChangedIds(pre.products, products))

\* The documents a complete run of the operation writes.
FullWrite(op) ==
  IF op = "seed_data" THEN Len(SeedCategories) + Len(SeedProducts) ELSE 1

\* C8: a request that has ended, by answering or by being interrupted at any
\* step, has left the store exactly as it found it or exactly as its complete
\* success leaves it (one document written; for seed_data, the whole catalog).
C8_NoPartialState ==
  \A p \in Procs :
    procs[p].pc \in {"done", "aborted"} =>
      DocsChanged(procs[p].pre) \in {0, FullWrite(procs[p].op)}

\* C9: nothing stands between create_product's pre-check and its insert: a
\* request that passed the pre-check inserts its product and answers 200
\* whatever was stored in between, so two requests with one SKU that both
\* passed it leave two products with that SKU.
C9_CheckThenAct ==
  [][\A p \in Procs :
       procs[p].pc = "create_product_insert_one" /\ procs'[p].pc = "done" =>
         /\ procs'[p].status = 200
         /\ products' = Append(products, procs[p].loc)
         /\ \A q \in Procs \ {p} :
              /\ Done(q) /\ procs[q].op = "create_product" /\ procs[q].status = 200
              /\ procs[q].body.sku = procs[p].loc.sku
              /\ procs[q].body \in Range(products)
              => ~DistinctOn(products', "sku")]_vars

\* C9's case: two create_product requests with one SKU, received when no
\* product had it, both answered 200 and both products are stored.
C9_Witness ==
  \E p, q \in Procs :
    /\ p # q
    /\ Done(p) /\ procs[p].op = "create_product" /\ procs[p].status = 200
    /\ Done(q) /\ procs[q].op = "create_product" /\ procs[q].status = 200
    /\ procs[p].arg.sku = procs[q].arg.sku
    /\ ~SkuHeld(procs[p].pre.products, procs[p].arg.sku)
    /\ ~SkuHeld(procs[q].pre.products, procs[q].arg.sku)
    /\ Cardinality({ i \in 1 .. Len(products) : products[i].sku = procs[p].arg.sku }) = 2

\* C10: a completed update_product that passed the guard ended in 200 with
\* the product, 404 or 400, whatever delete_product calls ran beside it.
C10_UpdateOutcomes ==
  \A p \in Procs :
    Done(p) /\ procs[p].op = "update_product" /\ Passed(p) =>
      \/ procs[p].status = 200 /\ procs[p].body.id = procs[p].arg.product_id
      \/ procs[p].status = 404 /\ procs[p].detail = "Product not found"
      \/ procs[p].status = 400 /\ procs[p].detail = "SKU already exists"

====
